---- MODULE Spec2Model ----
(***************************************************************************)
(* The global fetch interceptor of src/lib/agent-fetch-interceptor.ts:     *)
(* its install/uninstall lifecycle, the wrapped fetch, the response        *)
(* classifier, the fix-prompt synthesis and the notification of the parent *)
(* frame.                                                                  *)
(*                                                                         *)
(* JavaScript strings are sequences of one-character strings; the fixed    *)
(* pieces of a template literal are single elements holding the whole      *)
(* piece.  JavaScript values are records [t, b, n, s] tagged by type.      *)
(***************************************************************************)
EXTENDS Integers, Sequences, FiniteSets, TLC

(* ------------------------------------------------------------------ *)
(* Bounds of the model                                                 *)
(* ------------------------------------------------------------------ *)

\* number of fetch() calls dispatched in one behaviour
MaxCalls == 1

(* ------------------------------------------------------------------ *)
(* JavaScript values                                                   *)
(* ------------------------------------------------------------------ *)

Undefined == [t |-> "undefined", b |-> FALSE, n |-> 0, s |-> <<>>]
JNull == [t |-> "null", b |-> FALSE, n |-> 0, s |-> <<>>]
JBool(b) == [t |-> "boolean", b |-> b, n |-> 0, s |-> <<>>]
JNum(n) == [t |-> "number", b |-> FALSE, n |-> n, s |-> <<>>]
JStr(s) == [t |-> "string", b |-> FALSE, n |-> 0, s |-> s]
\* an array of n elements, and an object without the properties read here
JArr(n) == [t |-> "array", b |-> FALSE, n |-> n, s |-> <<>>]
JObj == [t |-> "object", b |-> FALSE, n |-> 0, s |-> <<>>]

\* ToBoolean: what `if (v)`, `a && b` and `a || b` test
Truthy(v) ==
  CASE v.t = "undefined" -> FALSE
    [] v.t = "null" -> FALSE
    [] v.t = "boolean" -> v.b
    [] v.t = "number" -> v.n # 0
    [] v.t = "string" -> Len(v.s) > 0
    [] OTHER -> TRUE

\* a || b
JsOr(a, b) == IF Truthy(a) THEN a ELSE b

\* v === false
IsFalse(v) == v.t = "boolean" /\ v.b = FALSE

\* v === true
IsTrue(v) == v.t = "boolean" /\ v.b = TRUE

\* v.length > k : undefined > k is false; strings and arrays have a length
LengthExceeds(v, k) ==
  CASE v.t = "string" -> Len(v.s) > k
    [] v.t = "array" -> v.n > k
    [] OTHER -> FALSE

Min(a, b) == IF a <= b THEN a ELSE b

\* s.substring(0, k) of a string s
Substring0(s, k) == SubSeq(s, 1, Min(Len(s), k))

\* String.prototype.includes: needle occurs in hay as a contiguous run
Includes(hay, needle) ==
  \E i \in 0..(Len(hay) - Len(needle)) :
    \A j \in 1..Len(needle) : hay[i + j] = needle[j]

\* n copies of the character c
Rep(c, n) == [i \in 1..n |-> c]

(* ------------------------------------------------------------------ *)
(* Decoded response bodies                                             *)
(* ------------------------------------------------------------------ *)

\* data.response: a value, with the properties read off it when an object
NoResponse ==
  [t |-> "undefined", b |-> FALSE, n |-> 0, s |-> <<>>,
   success |-> Undefined, error |-> Undefined, message |-> Undefined,
   answer |-> Undefined, result |-> Undefined, response |-> Undefined,
   data |-> Undefined]

\* the decoded JSON value `data`: its type and the properties the code reads
EmptyObject ==
  [t |-> "object", success |-> Undefined, error |-> Undefined,
   details |-> Undefined, raw_response |-> Undefined,
   parse_succeeded |-> Undefined, has_valid_data |-> Undefined,
   response |-> NoResponse, message |-> Undefined]

\* the JSON value null: reading a property of it throws a TypeError
NullData == [EmptyObject EXCEPT !.t = "null"]

\* a JSON array: the properties read are all undefined
ArrayData == [EmptyObject EXCEPT !.t = "array"]

\* a JSON string, number or boolean: the properties read are all undefined
StringData == [EmptyObject EXCEPT !.t = "string"]
NumberData == [EmptyObject EXCEPT !.t = "number"]
BooleanData == [EmptyObject EXCEPT !.t = "boolean"]

\* data.response seen as a JavaScript value
ResponseValue(r) == [t |-> r.t, b |-> r.b, n |-> r.n, s |-> r.s]

(* ------------------------------------------------------------------ *)
(* Response Classifier                                                 *)
(* ------------------------------------------------------------------ *)

\* the endpoint every report names
AgentEndpoint == <<"/", "a", "p", "i", "/", "a", "g", "e", "n", "t">>

\* the fixed message of a rule-2 report (one template piece)
ParseFailedMessage ==
  JStr(<<"JSON parsing failed but valid data exists in raw_response">>)

\* the fallback message of a network_error report (one template piece)
NetworkFailedMessage == JStr(<<"Network request failed">>)

\* the salvage threshold of rule 3
MinRawLength == 20

\* ErrorDetails; timestamp, userAgent and url are stamps of the environment
\* and are left out
ErrorDetails(type, message, raw) ==
  [type |-> type, message |-> message, raw_response |-> raw,
   endpoint |-> AgentEndpoint]

NoError == ErrorDetails("none", Undefined, Undefined)

\* typeof v === 'object' for a truthy v
IsObjectType(t) == t \in {"object", "array"}

\* the salvage test with >= in place of >
hasValidRaw_Inclusive(data) ==
  Truthy(data.raw_response) /\ LengthExceeds(data.raw_response, MinRawLength - 1)

\* data.raw_response && data.raw_response.length > 20, as a condition
hasValidRaw(data) ==
  Truthy(data.raw_response) /\ LengthExceeds(data.raw_response, MinRawLength)

\* the classifier whose rule 3 does not look at the nested success and error
detectResponseIssue_NoNestedCheck(data) ==
  IF data.t = "null"
    THEN [threw |-> TRUE, hasIssue |-> FALSE, error |-> NoError]
  ELSE IF IsFalse(data.success) /\ Truthy(data.error)
    THEN [threw |-> FALSE, hasIssue |-> TRUE,
          error |-> ErrorDetails("api_error", data.error,
                                 JsOr(data.details, data.raw_response))]
  ELSE IF IsFalse(data.parse_succeeded) /\ IsTrue(data.has_valid_data)
    THEN [threw |-> FALSE, hasIssue |-> TRUE,
          error |-> ErrorDetails("parse_error", ParseFailedMessage,
                                 data.raw_response)]
  ELSE IF /\ Truthy(ResponseValue(data.response))
          /\ IsObjectType(data.response.t)
          /\ hasValidRaw(data)
    THEN [threw |-> FALSE, hasIssue |-> TRUE,
          error |-> ErrorDetails("parse_error", data.response.error,
                                 data.raw_response)]
  ELSE [threw |-> FALSE, hasIssue |-> FALSE, error |-> NoError]

\* the classifier that tests rule 2 before rule 1
detectResponseIssue_Rule2First(data) ==
  IF data.t = "null"
    THEN [threw |-> TRUE, hasIssue |-> FALSE, error |-> NoError]
  ELSE IF IsFalse(data.parse_succeeded) /\ IsTrue(data.has_valid_data)
    THEN [threw |-> FALSE, hasIssue |-> TRUE,
          error |-> ErrorDetails("parse_error", ParseFailedMessage,
                                 data.raw_response)]
  ELSE IF IsFalse(data.success) /\ Truthy(data.error)
    THEN [threw |-> FALSE, hasIssue |-> TRUE,
          error |-> ErrorDetails("api_error", data.error,
                                 JsOr(data.details, data.raw_response))]
  ELSE IF /\ Truthy(ResponseValue(data.response))
          /\ IsObjectType(data.response.t)
          /\ IsFalse(data.response.success)
          /\ Truthy(data.response.error)
          /\ hasValidRaw(data)
    THEN [threw |-> FALSE, hasIssue |-> TRUE,
          error |-> ErrorDetails("parse_error", data.response.error,
                                 data.raw_response)]
  ELSE [threw |-> FALSE, hasIssue |-> FALSE, error |-> NoError]

\* detectResponseIssue(data): threw is the TypeError of reading a property of null
detectResponseIssue(data) ==
  IF data.t = "null"
    THEN [threw |-> TRUE, hasIssue |-> FALSE, error |-> NoError]
  ELSE IF IsFalse(data.success) /\ Truthy(data.error)
    THEN [threw |-> FALSE, hasIssue |-> TRUE,
          error |-> ErrorDetails("api_error", data.error,
                                 JsOr(data.details, data.raw_response))]
  ELSE IF IsFalse(data.parse_succeeded) /\ IsTrue(data.has_valid_data)
    THEN [threw |-> FALSE, hasIssue |-> TRUE,
          error |-> ErrorDetails("parse_error", ParseFailedMessage,
                                 data.raw_response)]
  ELSE IF /\ Truthy(ResponseValue(data.response))
          /\ IsObjectType(data.response.t)
          /\ IsFalse(data.response.success)
          /\ Truthy(data.response.error)
          /\ hasValidRaw(data)
    THEN [threw |-> FALSE, hasIssue |-> TRUE,
          error |-> ErrorDetails("parse_error", data.response.error,
                                 data.raw_response)]
  ELSE [threw |-> FALSE, hasIssue |-> FALSE, error |-> NoError]

(* ------------------------------------------------------------------ *)
(* Fix Prompt Synthesizer                                              *)
(* ------------------------------------------------------------------ *)

\* the excerpt of the raw response
RawExcerptLength == 500

\* the template pieces around the two interpolations
PromptHead == <<"## SIMPLE FIX REQUIRED [...] Error Type: ">>
PromptMiddle == <<" The raw_response contains the actual message: ">>
PromptTail == <<" ## THE FIX [...] just render raw_response directly.">>

\* error.raw_response?.substring(0, 500) inside the template literal:
\* undefined and null print as "undefined"; a string gives its excerpt;
\* any other value has no substring method and the call throws a TypeError
generateFixPrompt(error) ==
  LET raw == error.raw_response IN
  IF raw.t \in {"undefined", "null"}
    THEN [threw |-> FALSE,
          text |-> PromptHead \o <<error.type>> \o PromptMiddle
                     \o <<"undefined">> \o PromptTail]
  ELSE IF raw.t = "string"
    THEN [threw |-> FALSE,
          text |-> PromptHead \o <<error.type>> \o PromptMiddle
                     \o Substring0(raw.s, RawExcerptLength) \o PromptTail]
  ELSE [threw |-> TRUE, text |-> <<>>]

(* ------------------------------------------------------------------ *)
(* State                                                               *)
(* ------------------------------------------------------------------ *)

VARIABLES
  hasWindow,             \* typeof window !== 'undefined'
  embedded,              \* the page runs inside a parent frame
  originalFetch,         \* the primitive captured at module load: "native" or "none"
  winFetch,              \* window.fetch: "native", "intercepted" or "none"
  interceptorInstalled,  \* the installed flag
  last,                  \* the last lifecycle call and whether it took effect
  calls,                 \* the fetch() calls dispatched so far, in order
  log,                   \* what happened, in order: notifier calls, messages to
                         \* the parent, settlements of the callers' promises
  argData,               \* a decoded body handed to a function on its own
  verdict,               \* what detectResponseIssue(argData) gave, once it ran
  shown,                 \* the message content the chat resolved from argData
  messages,              \* the chat's messages state: sender and content, in order
  loading,               \* the chat's loading state
  turns,                 \* the handleSendMessage calls that passed the blank test
  lastSend               \* what the last handleSendMessage call did

\* the state of the interceptor module and of the calls through it
interceptorVars ==
  <<hasWindow, embedded, originalFetch, winFetch, interceptorInstalled,
    last, calls, log>>

\* the argument and the results of the functions run on their own
functionVars == <<argData, verdict, shown>>

\* the state of the chat component and the record of its calls
chatVars == <<messages, loading, turns, lastSend>>

vars == <<hasWindow, embedded, originalFetch, winFetch, interceptorInstalled,
          last, calls, log, argData, verdict, shown,
          messages, loading, turns, lastSend>>

(* ------------------------------------------------------------------ *)
(* Host Notifier                                                       *)
(* ------------------------------------------------------------------ *)

Event(ev, c, error) ==
  [ev |-> ev, call |-> c, error |-> error, action |-> "", fixPrompt |-> <<>>,
   fullResponse |-> "", threw |-> FALSE]

\* isInIframe() of components/ErrorBoundary: never throws
isInIframe == embedded

\* sendErrorToParent(error) of components/ErrorBoundary: the generic error
\* signal to the parent; never throws to its caller
sendErrorToParent(c, error) == <<Event("signal", c, error)>>

\* the FIX_ERROR_REQUEST message handed to window.parent.postMessage;
\* fullResponse is the serialised body (its text is not modelled) or null
FixErrorRequest(c, error, prompt, hasFull, postThrows) ==
  [ev |-> "post", call |-> c, error |-> error, action |-> "auto_detected",
   fixPrompt |-> prompt,
   fullResponse |-> IF hasFull THEN "serialized" ELSE "null",
   threw |-> postThrows]

\* the body of the try block: the prompt is synthesized while the
\* arguments of postMessage are evaluated, then postMessage is called.
\* postThrows: whether window.parent.postMessage throws
postFixErrorRequest(c, error, hasFull, postThrows) ==
  LET prompt == generateFixPrompt(error)
  IN IF prompt.threw
       THEN [threw |-> TRUE, events |-> <<>>]
     ELSE [threw |-> postThrows,
           events |-> <<FixErrorRequest(c, error, prompt.text, hasFull, postThrows)>>]

\* the notifier with its try block removed
sendErrorToParentWithFix_NoCatch(c, error, hasFull, postThrows) ==
  LET called == <<Event("notify", c, error)>>
      try == postFixErrorRequest(c, error, hasFull, postThrows)
  IN IF ~isInIframe
       THEN [threw |-> FALSE, events |-> called]
     ELSE [threw |-> try.threw,
           events |-> called \o sendErrorToParent(c, error) \o try.events]

\* the notifier without the embedding check
sendErrorToParentWithFix_NoIframeCheck(c, error, hasFull, postThrows) ==
  LET called == <<Event("notify", c, error)>>
      try == postFixErrorRequest(c, error, hasFull, postThrows)
  IN [threw |-> FALSE,
      events |-> called \o sendErrorToParent(c, error) \o try.events]

\* sendErrorToParentWithFix(error, fullResponse) for call c.  threw: whether
\* the notifier throws to its caller; events: what it did, in order.
\* Whatever the try block throws is caught and logged to the console
sendErrorToParentWithFix(c, error, hasFull, postThrows) ==
  LET called == <<Event("notify", c, error)>>
      try == postFixErrorRequest(c, error, hasFull, postThrows)
  IN IF ~isInIframe
       THEN [threw |-> FALSE, events |-> called]
     ELSE [threw |-> FALSE,   \* catch (e): try.threw goes no further
           events |-> called \o sendErrorToParent(c, error) \o try.events]

(* ------------------------------------------------------------------ *)
(* Requests, responses and outcomes                                    *)
(* ------------------------------------------------------------------ *)

\* the first argument of fetch: a string, a URL or a Request
StringInput(text) == [form |-> "string", text |-> text]
URLInput(href) == [form |-> "URL", text |-> href]
RequestInput(url) == [form |-> "Request", text |-> url]

\* typeof input === 'string' ? input : input instanceof URL ? input.href : input.url
urlOf(input) ==
  CASE input.form = "string" -> input.text
    [] input.form = "URL" -> input.text
    [] OTHER -> input.text

\* a call that is observed although its URL does not name the endpoint
IsTarget_Always(input) == TRUE

\* url.includes('/api/agent')
IsTarget(input) == Includes(urlOf(input), AgentEndpoint)

Inputs ==
  { StringInput(<<"/", "a", "p", "i", "/", "a", "g", "e", "n", "t">>),
    URLInput(<<"h", "/", "a", "p", "i", "/", "a", "g", "e", "n", "t", "?", "q">>),
    RequestInput(<<"/", "a", "p", "i", "/", "a", "g", "e", "n", "/", "t">>) }

\* what a response carries: text that decodes to `data`, or text that is
\* not JSON, and whether the status is in the 2xx range (response.ok)
JsonBody(data) == [json |-> TRUE, data |-> data, ok |-> TRUE]
TextBody == [json |-> FALSE, data |-> NullData, ok |-> TRUE]
\* a response with an error status whose text decodes to `data`
ErrorBody(data) == [json |-> TRUE, data |-> data, ok |-> FALSE]

\* {response: "Hello"}
HelloData ==
  [EmptyObject EXCEPT !.response =
     [NoResponse EXCEPT !.t = "string", !.s = <<"H", "e", "l", "l", "o">>]]

\* {success: false, error: "bad agent id"}
BadAgentData ==
  [EmptyObject EXCEPT !.success = JBool(FALSE),
                      !.error = JStr(<<"b", "a", "d", " ", "a", "g", "e", "n", "t", " ", "i", "d">>)]

\* {success: false, error: "bad", details: {code: 7}}
DetailsObjectData ==
  [EmptyObject EXCEPT !.success = JBool(FALSE),
                      !.error = JStr(<<"b", "a", "d">>),
                      !.details = JObj]

\* {_parse_succeeded: false, _has_valid_data: true, raw_response: "Hi"}
ParseFlagData ==
  [EmptyObject EXCEPT !.parse_succeeded = JBool(FALSE),
                      !.has_valid_data = JBool(TRUE),
                      !.raw_response = JStr(<<"H", "i">>)]

\* {response: {success: false, error: "Y"}, raw_response: "xxxxxxxxxxxxxxxxxxxxx"}
NestedFailureData ==
  [EmptyObject EXCEPT !.response =
     [NoResponse EXCEPT !.t = "object", !.success = JBool(FALSE),
                        !.error = JStr(<<"Y">>)],
                      !.raw_response = JStr(Rep("x", MinRawLength + 1))]

\* the bodies the endpoint answers with
Bodies ==
  { JsonBody(HelloData), JsonBody(BadAgentData), JsonBody(DetailsObjectData),
    JsonBody(ParseFlagData), JsonBody(NestedFailureData), JsonBody(NullData),
    TextBody }

\* a Response object: the one the primitive produced for call id, or a clone
Response(id, body) == [id |-> id, clone |-> FALSE, body |-> body]
clone(resp) == [resp EXCEPT !.clone = TRUE]
NoResp == [id |-> 0, clone |-> FALSE, body |-> TextBody]

\* a rejection value: an Error with its message, or any other thrown value
FetchFailed ==
  [isError |-> TRUE, message |-> JStr(<<"Failed to fetch">>), origin |-> "primitive"]
AbortReason ==
  [isError |-> FALSE, message |-> Undefined, origin |-> "primitive"]
FetchNotAvailable ==
  [isError |-> TRUE, message |-> JStr(<<"Fetch not available">>), origin |-> "wrapper"]
NotifierFailure ==
  [isError |-> TRUE, message |-> Undefined, origin |-> "notifier"]
NoErr == [isError |-> FALSE, message |-> Undefined, origin |-> "none"]

Rejections == {FetchFailed, AbortReason}

\* the state of a promise
Pending == [st |-> "pending", resp |-> NoResp, err |-> NoErr]
Resolved(resp) == [st |-> "resolved", resp |-> resp, err |-> NoErr]
Rejected(err) == [st |-> "rejected", resp |-> NoResp, err |-> err]

Settled(c) == Event("settle", c, NoError)

(* ------------------------------------------------------------------ *)
(* Interception Layer: the wrapped fetch                               *)
(* ------------------------------------------------------------------ *)

\* the deepest chain of wrappers followed when counting hops
HopLimit == 3

\* the function a fetch function hands the call to
Delegate(f) == IF f = "intercepted" THEN originalFetch ELSE f

RECURSIVE HopsFrom(_, _)
\* the wrappers a call entering at f passes before the native primitive
HopsFrom(f, n) ==
  IF f = "native" \/ f = "none" \/ n = 0 THEN 0
  ELSE 1 + HopsFrom(Delegate(f), n - 1)

Hops(f) == HopsFrom(f, HopLimit)

\* a call just dispatched through window.fetch; pc is where it waits:
\* "fetching" (the primitive is pending), "decoding" (clonedResponse.json()
\* is pending) or "done"; prim is the primitive's promise, out the promise
\* the caller holds
NewCall(input) ==
  [input |-> input, via |-> winFetch, installed |-> interceptorInstalled,
   restored |-> (last = "uninstalled"),
   hops |-> Hops(winFetch), pc |-> "fetching", prim |-> Pending,
   out |-> Pending, cloned |-> FALSE, decoded |-> "no", classified |-> FALSE,
   hasIssue |-> FALSE, notifierThrew |-> FALSE]

\* interceptedFetch up to its first await, or window.fetch when not wrapped
Dispatch(input) ==
  IF winFetch = "intercepted" /\ originalFetch = "none"
    THEN [NewCall(input) EXCEPT !.pc = "done", !.out = Rejected(FetchNotAvailable)]
  ELSE NewCall(input)

\* the call is inside the try block of interceptedFetch
Observed(call) == call.via = "intercepted" /\ IsTarget(call.input)

\* the caller holds the primitive's own promise
passThrough(c, call, outcome) ==
  [call |-> [call EXCEPT !.prim = outcome, !.out = outcome, !.pc = "done"],
   events |-> <<Settled(c)>>]

\* the wrapper hands the duplicate to the caller
interceptedFetch_decoded_ReturnsClone(c, call, postThrows) ==
  [call |-> [call EXCEPT !.decoded = "ok", !.out = Resolved(clone(call.prim.resp)),
                         !.pc = "done"],
   events |-> <<Settled(c)>>]

\* a body that is not JSON is reported as a parse_error
interceptedFetch_decoded_ReportsUndecodable(c, call, postThrows) ==
  LET n == sendErrorToParentWithFix(
             c, ErrorDetails("parse_error", ParseFailedMessage, Undefined),
             FALSE, postThrows)
  IN [call |-> [call EXCEPT !.decoded = "failed", !.out = Resolved(call.prim.resp),
                            !.pc = "done"],
      events |-> n.events \o <<Settled(c)>>]

\* interceptedFetch after `await clonedResponse.json()` settles: classify,
\* notify, return the original response.  A rejection of json(), a throw of
\* the classifier and a throw of the notifier all end in the empty catch
interceptedFetch_decoded(c, call, postThrows) ==
  LET body == call.prim.resp.body
      d == detectResponseIssue(body.data)
      classified == body.json
      notifies == classified /\ ~d.threw /\ d.hasIssue /\ d.error.type # "none"
      n == sendErrorToParentWithFix(c, d.error, body.data.t # "null", postThrows)
  IN [call |-> [call EXCEPT !.decoded = IF body.json THEN "ok" ELSE "failed",
                            !.classified = classified,
                            !.hasIssue = notifies,
                            !.notifierThrew = notifies /\ n.threw,
                            !.out = Resolved(call.prim.resp),
                            !.pc = "done"],
      events |-> (IF notifies THEN n.events ELSE <<>>) \o <<Settled(c)>>]

\* interceptedFetch after the primitive resolved: a pass-through call is
\* settled; an observed call clones the response and awaits its json()
interceptedFetch_resolved(c, call, resp) ==
  IF ~Observed(call)
    THEN passThrough(c, call, Resolved(resp))
  ELSE [call |-> [call EXCEPT !.prim = Resolved(resp), !.cloned = TRUE,
                              !.pc = "decoding"],
        events |-> <<>>]

\* the catch block rethrows without reporting
interceptedFetch_rejected_NoReport(c, call, err, postThrows) ==
  passThrough(c, call, Rejected(err))

\* interceptedFetch after the primitive rejected: a pass-through call is
\* settled; an observed call builds the network_error report, calls the
\* notifier and rethrows.  A throw of the notifier replaces the rejection
interceptedFetch_rejected(c, call, err, postThrows) ==
  IF ~Observed(call)
    THEN passThrough(c, call, Rejected(err))
  ELSE LET error == ErrorDetails("network_error",
                      IF err.isError THEN err.message ELSE NetworkFailedMessage,
                      Undefined)
           n == sendErrorToParentWithFix(c, error, FALSE, postThrows)
       IN [call |-> [call EXCEPT !.prim = Rejected(err),
                                 !.notifierThrew = n.threw,
                                 !.out = Rejected(IF n.threw THEN NotifierFailure
                                                             ELSE err),
                                 !.pc = "done"],
           events |-> n.events \o <<Settled(c)>>]

(* ------------------------------------------------------------------ *)
(* Actions                                                             *)
(* ------------------------------------------------------------------ *)

\* detectResponseIssue has not run
NotRun == [ran |-> FALSE, threw |-> FALSE, hasIssue |-> FALSE, error |-> NoError]

\* the chat has resolved no content
NotShown == [ran |-> FALSE, threw |-> FALSE, content |-> Undefined]

Init ==
  /\ hasWindow \in BOOLEAN
  \* only a page in a window can sit in a parent frame
  /\ embedded \in IF hasWindow THEN BOOLEAN ELSE {FALSE}
  /\ originalFetch = IF hasWindow THEN "native" ELSE "none"
  /\ winFetch = IF hasWindow THEN "native" ELSE "none"
  /\ interceptorInstalled = FALSE
  /\ last = "none"
  /\ calls = <<>>
  /\ log = <<>>
  /\ argData = EmptyObject
  /\ verdict = NotRun
  /\ shown = NotShown
  /\ messages = <<>>
  /\ loading = FALSE
  /\ turns = <<>>
  /\ lastSend = "none"

\* install that wraps whatever window.fetch is, without the flag check
installAgentInterceptor_Rewrap ==
  IF ~hasWindow \/ winFetch = "none"
    THEN /\ last' = "install-noop"
         /\ UNCHANGED <<hasWindow, embedded, originalFetch, winFetch,
                        interceptorInstalled, calls, log>>
  ELSE /\ originalFetch' = winFetch
       /\ winFetch' = "intercepted"
       /\ interceptorInstalled' = TRUE
       /\ last' = "installed"
       /\ UNCHANGED <<hasWindow, embedded, calls, log>>

\* install that replaces window.fetch and leaves the flag alone
installAgentInterceptor_NoFlag ==
  IF ~hasWindow \/ interceptorInstalled \/ originalFetch = "none"
    THEN /\ last' = "install-noop"
         /\ UNCHANGED <<hasWindow, embedded, originalFetch, winFetch,
                        interceptorInstalled, calls, log>>
  ELSE /\ winFetch' = "intercepted"
       /\ last' = "installed"
       /\ UNCHANGED <<hasWindow, embedded, originalFetch,
                      interceptorInstalled, calls, log>>

installAgentInterceptor ==
  IF ~hasWindow \/ interceptorInstalled \/ originalFetch = "none"
    THEN /\ last' = "install-noop"
         /\ UNCHANGED <<hasWindow, embedded, originalFetch, winFetch,
                        interceptorInstalled, calls, log>>
  ELSE /\ winFetch' = "intercepted"
       /\ interceptorInstalled' = TRUE
       /\ last' = "installed"
       /\ UNCHANGED <<hasWindow, embedded, originalFetch, calls, log>>

\* uninstall that clears the flag and leaves window.fetch wrapped
uninstallAgentInterceptor_KeepsWrapper ==
  IF ~hasWindow \/ ~interceptorInstalled \/ originalFetch = "none"
    THEN /\ last' = "uninstall-noop"
         /\ UNCHANGED <<hasWindow, embedded, originalFetch, winFetch,
                        interceptorInstalled, calls, log>>
  ELSE /\ interceptorInstalled' = FALSE
       /\ last' = "uninstalled"
       /\ UNCHANGED <<hasWindow, embedded, originalFetch, winFetch, calls, log>>

uninstallAgentInterceptor ==
  IF ~hasWindow \/ ~interceptorInstalled \/ originalFetch = "none"
    THEN /\ last' = "uninstall-noop"
         /\ UNCHANGED <<hasWindow, embedded, originalFetch, winFetch,
                        interceptorInstalled, calls, log>>
  ELSE /\ winFetch' = originalFetch
       /\ interceptorInstalled' = FALSE
       /\ last' = "uninstalled"
       /\ UNCHANGED <<hasWindow, embedded, originalFetch, calls, log>>

\* some code of the page calls window.fetch(input, init)
Fetch(input) ==
  /\ Len(calls) < MaxCalls
  /\ winFetch # "none"
  /\ LET call == Dispatch(input) IN
       /\ calls' = Append(calls, call)
       /\ log' = IF call.pc = "done" THEN Append(log, Settled(Len(calls) + 1))
                 ELSE log
  /\ UNCHANGED <<hasWindow, embedded, originalFetch, winFetch,
                 interceptorInstalled, last>>

Apply(c, r) ==
  /\ calls' = [calls EXCEPT ![c] = r.call]
  /\ log' = log \o r.events
  /\ UNCHANGED <<hasWindow, embedded, originalFetch, winFetch,
                 interceptorInstalled, last>>

\* the native primitive resolves call c with a response
PrimitiveResolves(c, body) ==
  /\ calls[c].pc = "fetching"
  /\ Apply(c, IF calls[c].via = "intercepted"
                THEN interceptedFetch_resolved(c, calls[c], Response(c, body))
              ELSE passThrough(c, calls[c], Resolved(Response(c, body))))

\* the native primitive rejects call c
PrimitiveRejects(c, err, postThrows) ==
  /\ calls[c].pc = "fetching"
  /\ Apply(c, IF calls[c].via = "intercepted"
                THEN interceptedFetch_rejected(c, calls[c], err, postThrows)
              ELSE passThrough(c, calls[c], Rejected(err)))

\* clonedResponse.json() of call c settles
BodyDecoded(c, postThrows) ==
  /\ calls[c].pc = "decoding"
  /\ Apply(c, interceptedFetch_decoded(c, calls[c], postThrows))

Next ==
  \/ installAgentInterceptor /\ UNCHANGED <<functionVars, chatVars>>
  \/ uninstallAgentInterceptor /\ UNCHANGED <<functionVars, chatVars>>
  \/ \E input \in Inputs : Fetch(input) /\ UNCHANGED <<functionVars, chatVars>>
  \/ \E c \in DOMAIN calls, body \in Bodies :
       PrimitiveResolves(c, body) /\ UNCHANGED <<functionVars, chatVars>>
  \/ \E c \in DOMAIN calls, err \in Rejections, postThrows \in BOOLEAN :
       PrimitiveRejects(c, err, postThrows) /\ UNCHANGED <<functionVars, chatVars>>
  \/ \E c \in DOMAIN calls, postThrows \in BOOLEAN :
       BodyDecoded(c, postThrows) /\ UNCHANGED <<functionVars, chatVars>>

Spec == Init /\ [][Next]_vars

(* ------------------------------------------------------------------ *)
(* Properties                                                          *)
(* ------------------------------------------------------------------ *)

\* the positions of the events of kind ev that call c left in the log
Positions(c, ev) == {i \in DOMAIN log : log[i].call = c /\ log[i].ev = ev}

\* url.includes('/api/agent') of the call's input, read off the input itself
NamesEndpoint(call) == Includes(call.input.text, AgentEndpoint)

\* the body of the call's response decodes to a value the classifier flags
Flagged(call) ==
  /\ call.prim.st = "resolved"
  /\ call.prim.resp.body.json
  /\ detectResponseIssue(call.prim.resp.body.data).hasIssue

\* C1: every settled call gave its caller exactly what the native primitive
\* produced for it: the same Response object or the same rejection value
C1_NonInterference ==
  \A c \in DOMAIN calls :
    /\ calls[c].out.st # "pending" => calls[c].out = calls[c].prim
    /\ calls[c].pc = "done" => calls[c].out.st # "pending"

\* an observed call whose response was flagged and reported to the parent,
\* and whose caller holds the primitive's response
C1_Witness ==
  \E c \in DOMAIN calls :
    /\ calls[c].via = "intercepted"
    /\ NamesEndpoint(calls[c])
    /\ Flagged(calls[c])
    /\ Positions(c, "post") # {}
    /\ calls[c].out = calls[c].prim

\* C2: when the primitive rejects an observed call, a network_error report
\* is handed to the notifier before the caller's promise settles, and the
\* caller's promise is rejected with the primitive's rejection value
C2_NetworkErrorReportedThenRethrown ==
  \A c \in DOMAIN calls :
    (/\ calls[c].via = "intercepted"
     /\ NamesEndpoint(calls[c])
     /\ calls[c].prim.st = "rejected")
    => /\ calls[c].out = calls[c].prim
       /\ Cardinality(Positions(c, "notify")) = 1
       /\ Cardinality(Positions(c, "settle")) = 1
       /\ \A i \in Positions(c, "notify") :
            /\ log[i].error.type = "network_error"
            /\ log[i].error.message =
                 IF calls[c].prim.err.isError THEN calls[c].prim.err.message
                 ELSE NetworkFailedMessage
            /\ \A j \in Positions(c, "settle") : i < j
       /\ \A i \in Positions(c, "signal") \cup Positions(c, "post") :
            \A j \in Positions(c, "settle") : i < j

\* an observed call rejected by the primitive while embedded: the report
\* reached the parent and the caller holds the rejection
C2_Witness ==
  \E c \in DOMAIN calls :
    /\ calls[c].via = "intercepted"
    /\ NamesEndpoint(calls[c])
    /\ calls[c].prim = Rejected(FetchFailed)
    /\ calls[c].out = Rejected(FetchFailed)
    /\ Positions(c, "post") # {}

\* C3: once the primitive has resolved a call, the caller holds the response,
\* whether or not the decoding of the duplicate has finished
C3_ResponseNotDelayed ==
  \A c \in DOMAIN calls :
    calls[c].prim.st = "resolved" => calls[c].out.st = "resolved"

\* C4: window.fetch is never wrapped more than once: it reaches the native
\* primitive in one hop while installed and in none otherwise, and every
\* call not naming the endpoint passed at most one wrapper
C4_InstallIdempotent ==
  /\ Hops(winFetch) = IF interceptorInstalled THEN 1 ELSE 0
  /\ interceptorInstalled => winFetch = "intercepted" /\ originalFetch = "native"
  /\ \A c \in DOMAIN calls :
       ~NamesEndpoint(calls[c]) =>
         calls[c].hops = IF calls[c].installed THEN 1 ELSE 0

\* install was called while installed, and a call not naming the endpoint
\* went through the wrapper
C4_Witness ==
  /\ last = "install-noop"
  /\ interceptorInstalled
  /\ \E c \in DOMAIN calls :
       /\ ~NamesEndpoint(calls[c])
       /\ calls[c].via = "intercepted"
       /\ calls[c].hops = 1
       /\ calls[c].pc = "done"

\* C5: while not installed, window.fetch is the primitive captured at load,
\* and a call dispatched then goes straight to it: nothing is duplicated,
\* decoded or classified and the notifier is not called
C5_UninstallRestores ==
  /\ ~interceptorInstalled => winFetch = originalFetch
  /\ \A c \in DOMAIN calls :
       ~calls[c].installed =>
         /\ calls[c].via = originalFetch
         /\ calls[c].hops = 0
         /\ ~calls[c].cloned /\ calls[c].decoded = "no" /\ ~calls[c].classified
         /\ Positions(c, "notify") \cup Positions(c, "signal")
              \cup Positions(c, "post") = {}
         /\ calls[c].out = calls[c].prim

\* a call to the endpoint dispatched right after an uninstall, answered with
\* a body the classifier flags, while embedded
C5_Witness ==
  \E c \in DOMAIN calls :
    /\ calls[c].restored
    /\ NamesEndpoint(calls[c])
    /\ Flagged(calls[c])
    /\ calls[c].pc = "done"
    /\ embedded

\* C6: a call whose URL does not name the endpoint is never observed: no
\* duplicate, no decoding, no classification, no notification, and the
\* caller holds the primitive's own outcome, resolved or rejected
C6_OtherEndpointsUntouched ==
  \A c \in DOMAIN calls :
    ~NamesEndpoint(calls[c]) =>
      /\ ~calls[c].cloned /\ calls[c].decoded = "no" /\ ~calls[c].classified
      /\ Positions(c, "notify") \cup Positions(c, "signal")
           \cup Positions(c, "post") = {}
      /\ calls[c].out = calls[c].prim

\* a call to another endpoint went through the wrapper while embedded and
\* was answered with a body the classifier flags
C6_Witness ==
  \E c \in DOMAIN calls :
    /\ ~NamesEndpoint(calls[c])
    /\ calls[c].via = "intercepted"
    /\ Flagged(calls[c])
    /\ calls[c].pc = "done"
    /\ embedded

\* C7: when the body of an observed call is not JSON, the notifier is not
\* called, nothing is sent to the parent and the caller holds the response
C7_UndecodableNotReported ==
  \A c \in DOMAIN calls :
    (/\ calls[c].prim.st = "resolved"
     /\ ~calls[c].prim.resp.body.json
     /\ calls[c].pc = "done")
    => /\ Positions(c, "notify") \cup Positions(c, "signal")
            \cup Positions(c, "post") = {}
       /\ calls[c].out = calls[c].prim

\* an observed call whose body was not JSON, finished while embedded
C7_Witness ==
  \E c \in DOMAIN calls :
    /\ calls[c].via = "intercepted"
    /\ NamesEndpoint(calls[c])
    /\ calls[c].decoded = "failed"
    /\ calls[c].pc = "done"
    /\ embedded

C9_NothingSentWhenNotEmbedded ==
  ~embedded => \A i \in DOMAIN log : log[i].ev \notin {"signal", "post"}

\* the notifier was called while not embedded
C9_Witness ==
  /\ ~embedded
  /\ \E i \in DOMAIN log : log[i].ev = "notify"

\* C10: while embedded, a finished observed call whose response the
\* classifier flags has sent exactly one generic signal and then exactly one
\* FIX_ERROR_REQUEST with action auto_detected; any other response, none
C10_OneHostMessagePerIssue ==
  embedded =>
    \A c \in DOMAIN calls :
      (/\ calls[c].via = "intercepted"
       /\ NamesEndpoint(calls[c])
       /\ calls[c].prim.st = "resolved"
       /\ calls[c].pc = "done")
      => IF Flagged(calls[c])
           THEN /\ Cardinality(Positions(c, "signal")) = 1
                /\ Cardinality(Positions(c, "post")) = 1
                /\ \A i \in Positions(c, "post") :
                     /\ log[i].action = "auto_detected"
                     /\ \A j \in Positions(c, "signal") : j < i
         ELSE Positions(c, "signal") \cup Positions(c, "post") = {}

\* the value isInterceptorInstalled() returns
isInterceptorInstalled == interceptorInstalled

\* C19: after any sequence of install and uninstall calls the flag is true
\* exactly when window.fetch is the wrapper and false exactly when it is the
\* primitive captured at load; the wrapper delegates to that primitive and
\* never to itself; without a window the interceptor stays uninstalled
C19_FlagMatchesGlobalFetch ==
  /\ isInterceptorInstalled <=> winFetch = "intercepted"
  /\ ~isInterceptorInstalled <=> winFetch = originalFetch
  /\ Delegate("intercepted") = originalFetch
  /\ Delegate("intercepted") # "intercepted"
  /\ \A c \in DOMAIN calls :
       calls[c].via = "intercepted" => calls[c].hops = 1
  /\ ~hasWindow =>
       /\ ~isInterceptorInstalled
       /\ winFetch = "none"
       /\ last \in {"none", "install-noop", "uninstall-noop"}

\* the interceptor was installed, served a call and was uninstalled again
C19_Witness ==
  /\ last = "uninstalled"
  /\ ~isInterceptorInstalled
  /\ winFetch = "native"
  /\ \E c \in DOMAIN calls :
       calls[c].via = "intercepted" /\ calls[c].pc = "done"

\* C11: the fix prompt of every FIX_ERROR_REQUEST sent for an api_error
\* report contains the error description of the body as a substring
C11_FixPromptCarriesError ==
  \A i \in DOMAIN log :
    (/\ log[i].ev = "post"
     /\ log[i].error.type = "api_error"
     /\ log[i].error.message.t = "string")
    => Includes(log[i].fixPrompt, log[i].error.message.s)

(* ------------------------------------------------------------------ *)
(* The classifier on its own                                           *)
(* ------------------------------------------------------------------ *)

\* data.response: absent, a string, a failed nested response with and
\* without an error, and a nested response that succeeded
NestedResponses ==
  { NoResponse,
    [NoResponse EXCEPT !.t = "string", !.s = <<"H", "i">>],
    [NoResponse EXCEPT !.t = "object", !.success = JBool(FALSE),
                       !.error = JStr(<<"Y">>)],
    [NoResponse EXCEPT !.t = "object", !.success = JBool(FALSE),
                       !.error = JStr(<<>>)],
    [NoResponse EXCEPT !.t = "object", !.success = JBool(TRUE)] }

\* data.raw_response: absent, empty, at the salvage threshold, just above it
RawResponses ==
  { Undefined, JStr(<<>>), JStr(Rep("x", MinRawLength)),
    JStr(Rep("x", MinRawLength + 1)) }

\* the decoded JSON values handed to the classifier
ClassifierData ==
  { [EmptyObject EXCEPT !.success = s, !.error = e, !.details = d,
                        !.raw_response = r, !.parse_succeeded = p,
                        !.has_valid_data = h, !.response = n] :
      s \in {Undefined, JBool(FALSE), JBool(TRUE)},
      e \in {Undefined, JStr(<<>>), JStr(<<"X">>)},
      d \in {Undefined, JStr(<<"d">>), JObj},
      r \in RawResponses,
      p \in {Undefined, JBool(FALSE), JBool(TRUE)},
      h \in {Undefined, JBool(TRUE)},
      n \in NestedResponses }
  \cup {NullData, ArrayData, StringData, NumberData, BooleanData}

InitClassify ==
  /\ hasWindow = TRUE
  /\ embedded = FALSE
  /\ originalFetch = "native"
  /\ winFetch = "native"
  /\ interceptorInstalled = FALSE
  /\ last = "none"
  /\ calls = <<>>
  /\ log = <<>>
  /\ argData \in ClassifierData
  /\ verdict = NotRun
  /\ shown = NotShown
  /\ messages = <<>>
  /\ loading = FALSE
  /\ turns = <<>>
  /\ lastSend = "none"

\* detectResponseIssue(argData) is called
Classify ==
  /\ ~verdict.ran
  /\ verdict' = LET r == detectResponseIssue(argData)
                IN [ran |-> TRUE, threw |-> r.threw, hasIssue |-> r.hasIssue,
                    error |-> r.error]
  /\ UNCHANGED <<interceptorVars, argData, shown, chatVars>>

SpecClassify == InitClassify /\ [][Classify]_vars

\* the body carries the explicit failure flag: success === false
HasFailureFlag(d) == d.success.t = "boolean" /\ ~d.success.b

\* the body carries the rule-2 pair: _parse_succeeded === false and
\* _has_valid_data === true
HasParseFlags(d) ==
  /\ d.parse_succeeded.t = "boolean" /\ ~d.parse_succeeded.b
  /\ d.has_valid_data.t = "boolean" /\ d.has_valid_data.b

\* the nested-failure shape: a response object with success === false and a
\* non-empty error
HasNestedFailure(d) ==
  /\ d.response.t = "object"
  /\ d.response.success.t = "boolean" /\ ~d.response.success.b
  /\ d.response.error.t = "string" /\ Len(d.response.error.s) > 0

\* C12 as stated: without the failure flag and without a nested failure the
\* classifier reports no issue
C12_NoFlagNoNestedNoIssue ==
  (/\ verdict.ran
   /\ ~HasFailureFlag(argData)
   /\ ~HasNestedFailure(argData))
  => ~verdict.hasIssue

\* C12 amended: without the failure flag, without the rule-2 pair and
\* without a nested failure the classifier reports no issue: it returns
\* hasIssue = false, and for the body null it throws
C12_NoRuleMatchesNoIssue ==
  (/\ verdict.ran
   /\ ~HasFailureFlag(argData)
   /\ ~HasParseFlags(argData)
   /\ ~HasNestedFailure(argData))
  => /\ ~verdict.hasIssue
     /\ verdict.error = NoError
     /\ verdict.threw <=> argData.t = "null"

\* the classifier ran on a body with a nested response that succeeded and a
\* raw_response above the salvage threshold, and with no rule-2 pair
C12_Witness ==
  /\ verdict.ran
  /\ ~HasFailureFlag(argData)
  /\ ~HasParseFlags(argData)
  /\ argData.response.t = "object"
  /\ IsTrue(argData.response.success)
  /\ LengthExceeds(argData.raw_response, MinRawLength)
  /\ ~verdict.hasIssue

\* rule 1 matches: success === false and a truthy error
MatchesRule1(d) == HasFailureFlag(d) /\ Truthy(d.error)

\* the top-level raw_response is a string longer than the salvage threshold
RawAboveThreshold(d) ==
  d.raw_response.t = "string" /\ Len(d.raw_response.s) > MinRawLength

\* C13: a body with a nested {success:false, error:Y} and no rule-1 or rule-2
\* match is not flagged when raw_response is absent or at most 20 long, and
\* is a parse_error with message Y and raw_response as raw text when longer
C13_SalvageThreshold ==
  (/\ verdict.ran
   /\ HasNestedFailure(argData)
   /\ ~MatchesRule1(argData)
   /\ ~HasParseFlags(argData))
  => /\ ~verdict.threw
     /\ IF RawAboveThreshold(argData)
          THEN /\ verdict.hasIssue
               /\ verdict.error.type = "parse_error"
               /\ verdict.error.message = argData.response.error
               /\ verdict.error.raw_response = argData.raw_response
          ELSE /\ ~verdict.hasIssue
               /\ verdict.error = NoError

\* a nested failure with a raw_response one above the threshold was flagged
C13_Witness ==
  /\ verdict.ran
  /\ HasNestedFailure(argData)
  /\ ~MatchesRule1(argData)
  /\ ~HasParseFlags(argData)
  /\ argData.raw_response.t = "string"
  /\ Len(argData.raw_response.s) = MinRawLength + 1
  /\ verdict.hasIssue
  /\ verdict.error.type = "parse_error"

\* C14: the classifier returns a result for every decoded JSON value, it
\* never throws
C14_ClassifierNeverThrows ==
  verdict.ran => ~verdict.threw

\* C15: every report the classifier creates has its type set, a non-empty
\* message, and a raw_response that is absent or non-empty
C15_ReportWellFormed ==
  (verdict.ran /\ verdict.hasIssue)
  => /\ verdict.error.type \in {"api_error", "parse_error", "network_error"}
     /\ verdict.error.message.t = "string"
     /\ Len(verdict.error.message.s) > 0
     /\ ~(/\ verdict.error.raw_response.t = "string"
          /\ Len(verdict.error.raw_response.s) = 0)

\* C18: the first matching rule wins: a rule-1 body is an api_error with its
\* own error as message and details, when present, as raw text, whatever
\* else it matches; a body matching rules 2 and 3 but not rule 1 gets the
\* fixed rule-2 message
C18_FirstMatchWins ==
  /\ (verdict.ran /\ MatchesRule1(argData))
     => /\ verdict.hasIssue
        /\ verdict.error.type = "api_error"
        /\ verdict.error.message = argData.error
        /\ Truthy(argData.details)
           => verdict.error.raw_response = argData.details
  /\ (/\ verdict.ran
      /\ ~MatchesRule1(argData)
      /\ HasParseFlags(argData)
      /\ HasNestedFailure(argData)
      /\ RawAboveThreshold(argData))
     => /\ verdict.hasIssue
        /\ verdict.error.type = "parse_error"
        /\ verdict.error.message = ParseFailedMessage
        /\ verdict.error.raw_response = argData.raw_response

\* the classifier ran on a body matching all three rules at once
C18_Witness ==
  /\ verdict.ran
  /\ MatchesRule1(argData)
  /\ HasParseFlags(argData)
  /\ HasNestedFailure(argData)
  /\ RawAboveThreshold(argData)
  /\ Truthy(argData.details)
  /\ verdict.error.type = "api_error"

(* ------------------------------------------------------------------ *)
(* Chat surface: the content shown for a decoded body                  *)
(* ------------------------------------------------------------------ *)

\* the initial messageContent (one template piece)
UnableToProcess == JStr(<<"Unable to process your question">>)

\* the content of the message appended by the catch block (one piece)
Apology ==
  JStr(<<"Sorry, I encountered an error processing your question. Please try again.">>)

\* the decimal digits, for the numbers serialized here
Digits == <<"0", "1", "2", "3", "4", "5", "6", "7", "8", "9">>

\* JSON.stringify of a property value, as tokens
Render(v) ==
  CASE v.t = "string" -> <<"\"">> \o v.s \o <<"\"">>
    [] v.t = "number" -> <<Digits[v.n + 1]>>
    [] v.t = "boolean" -> <<IF v.b THEN "true" ELSE "false">>
    [] v.t = "null" -> <<"null">>
    [] v.t = "array" -> <<"[", "]">>
    [] OTHER -> <<"{", "}">>

\* the properties a response object is modelled with, in serialization order
FieldNames ==
  <<"success", "error", "message", "answer", "result", "response", "data">>

RECURSIVE JoinMembers(_, _)
\* the members "name":value of r, separated by commas
JoinMembers(r, names) ==
  IF names = <<>> THEN <<>>
  ELSE <<"\"", Head(names), "\"", ":">> \o Render(r[Head(names)])
         \o (IF Len(names) > 1 THEN <<",">> ELSE <<>>)
         \o JoinMembers(r, Tail(names))

\* JSON.stringify(data.response) for an object or an array: undefined
\* properties are left out
Stringify(r) ==
  IF r.t = "array" THEN JStr(<<"[", "]">>)
  ELSE JStr(<<"{">>
            \o JoinMembers(r, SelectSeq(FieldNames,
                                        LAMBDA f : r[f].t # "undefined"))
            \o <<"}">>)

\* the extraction that tries response.answer before response.message
messageContent_AnswerFirst(data) ==
  IF data.t = "null"
    THEN [threw |-> TRUE, content |-> Undefined]
  ELSE IF Truthy(ResponseValue(data.response))
    THEN IF data.response.t = "string"
           THEN [threw |-> FALSE, content |-> ResponseValue(data.response)]
         ELSE IF IsObjectType(data.response.t)
           THEN [threw |-> FALSE,
                 content |->
                   JsOr(data.response.answer,
                   JsOr(data.response.message,
                   JsOr(data.response.result,
                   JsOr(data.response.response,
                   JsOr(data.response.data, Stringify(data.response))))))]
         ELSE [threw |-> FALSE, content |-> UnableToProcess]
  ELSE IF Truthy(data.message) /\ data.message.t = "string"
    THEN [threw |-> FALSE, content |-> data.message]
  ELSE [threw |-> FALSE, content |-> UnableToProcess]

\* lines 75-93 of handleSendMessage: the content resolved from the decoded
\* body; threw is the TypeError of reading a property of null
messageContent(data) ==
  IF data.t = "null"
    THEN [threw |-> TRUE, content |-> Undefined]
  ELSE IF Truthy(ResponseValue(data.response))
    THEN IF data.response.t = "string"
           THEN [threw |-> FALSE, content |-> ResponseValue(data.response)]
         ELSE IF IsObjectType(data.response.t)
           THEN [threw |-> FALSE,
                 content |->
                   JsOr(data.response.message,
                   JsOr(data.response.answer,
                   JsOr(data.response.result,
                   JsOr(data.response.response,
                   JsOr(data.response.data, Stringify(data.response))))))]
         ELSE [threw |-> FALSE, content |-> UnableToProcess]
  ELSE IF Truthy(data.message) /\ data.message.t = "string"
    THEN [threw |-> FALSE, content |-> data.message]
  ELSE [threw |-> FALSE, content |-> UnableToProcess]

\* values of data.response that are not objects
PlainResponses ==
  { NoResponse,
    [NoResponse EXCEPT !.t = "null"],
    [NoResponse EXCEPT !.t = "string"],
    [NoResponse EXCEPT !.t = "string", !.s = <<"H", "e", "l", "l", "o">>],
    [NoResponse EXCEPT !.t = "number"],
    [NoResponse EXCEPT !.t = "number", !.n = 5],
    [NoResponse EXCEPT !.t = "boolean", !.b = TRUE],
    [NoResponse EXCEPT !.t = "array"] }

\* objects as data.response, with the properties the extraction reads
ObjectResponses ==
  { [NoResponse EXCEPT !.t = "object", !.message = m, !.answer = a,
                       !.result = r, !.response = p, !.data = d] :
      m \in {Undefined, JStr(<<>>), JStr(<<"m">>)},
      a \in {Undefined, JStr(<<"a">>)},
      r \in {Undefined, JNum(0), JStr(<<"r">>)},
      p \in {Undefined, JStr(<<"p">>)},
      d \in {Undefined, JObj} }

\* the decoded bodies the extraction is run on
DisplayData ==
  { [EmptyObject EXCEPT !.response = r, !.message = m] :
      r \in PlainResponses \cup ObjectResponses,
      m \in {Undefined, JStr(<<>>), JStr(<<"M">>), JNum(7)} }
  \cup {NullData, StringData}

InitDisplay ==
  /\ hasWindow = TRUE
  /\ embedded = FALSE
  /\ originalFetch = "native"
  /\ winFetch = "native"
  /\ interceptorInstalled = FALSE
  /\ last = "none"
  /\ calls = <<>>
  /\ log = <<>>
  /\ argData \in DisplayData
  /\ verdict = NotRun
  /\ shown = NotShown
  /\ messages = <<>>
  /\ loading = FALSE
  /\ turns = <<>>
  /\ lastSend = "none"

\* the extraction applied to argData
Display ==
  /\ ~shown.ran
  /\ shown' = LET r == messageContent(argData)
              IN [ran |-> TRUE, threw |-> r.threw, content |-> r.content]
  /\ UNCHANGED <<interceptorVars, argData, verdict, chatVars>>

SpecDisplay == InitDisplay /\ [][Display]_vars

\* the first of response.message, .answer, .result, .response, .data that is
\* truthy, or undefined when none is
FirstPresent(r) ==
  IF Truthy(r.message) THEN r.message
  ELSE IF Truthy(r.answer) THEN r.answer
  ELSE IF Truthy(r.result) THEN r.result
  ELSE IF Truthy(r.response) THEN r.response
  ELSE IF Truthy(r.data) THEN r.data
  ELSE Undefined

\* C16 as stated: the content shown is response when it is a string, else
\* the first present of the five properties of response, else the
\* serialized response object, else the top-level message string, else the
\* fixed text
C16_PriorityOrder ==
  (shown.ran /\ ~shown.threw)
  => shown.content =
       LET r == argData.response IN
       IF r.t = "string" THEN JStr(r.s)
       ELSE IF r.t \in {"object", "array"} /\ FirstPresent(r) # Undefined
         THEN FirstPresent(r)
       ELSE IF r.t \in {"object", "array"} THEN Stringify(r)
       ELSE IF argData.message.t = "string" THEN argData.message
       ELSE UnableToProcess

\* C16 amended: the order is by truthiness. A truthy response gives itself
\* when a string, the first truthy of its five properties or else its
\* serialization when an object, and the fixed text when neither; a falsy
\* response gives the top-level message when that is a non-empty string and
\* the fixed text otherwise. {response: "Hello"} shows "Hello".
C16_TruthinessOrder ==
  /\ (shown.ran /\ argData.t # "null")
     => /\ ~shown.threw
        /\ shown.content =
             LET r == argData.response IN
             CASE r.t = "string" /\ Len(r.s) > 0 -> JStr(r.s)
               [] r.t \in {"object", "array"} ->
                    IF FirstPresent(r) # Undefined THEN FirstPresent(r)
                    ELSE Stringify(r)
               [] r.t = "number" /\ r.n # 0 -> UnableToProcess
               [] r.t = "boolean" /\ r.b -> UnableToProcess
               [] OTHER ->
                    IF argData.message.t = "string" /\ Len(argData.message.s) > 0
                      THEN argData.message
                    ELSE UnableToProcess
  /\ (shown.ran /\ argData = HelloData)
     => shown.content = JStr(<<"H", "e", "l", "l", "o">>)
  /\ (/\ shown.ran
      /\ argData.response = [NoResponse EXCEPT !.t = "object",
                                               !.message = JStr(<<>>)])
     => shown.content =
          JStr(<<"{", "\"", "message", "\"", ":", "\"", "\"", "}">>)

\* the extraction ran on a body whose response is the number 5 and whose
\* top-level message is a string, and resolved the fixed text
C16_Witness ==
  /\ shown.ran
  /\ argData.response.t = "number"
  /\ argData.response.n = 5
  /\ argData.message = JStr(<<"M">>)
  /\ shown.content = UnableToProcess

(* ------------------------------------------------------------------ *)
(* Chat surface: handleSendMessage over the global fetch               *)
(* ------------------------------------------------------------------ *)

RECURSIVE TrimStart(_)
TrimStart(s) ==
  IF s # <<>> /\ Head(s) = " " THEN TrimStart(Tail(s)) ELSE s

RECURSIVE TrimEnd(_)
TrimEnd(s) ==
  IF s # <<>> /\ s[Len(s)] = " " THEN TrimEnd(SubSeq(s, 1, Len(s) - 1)) ELSE s

\* text.trim()
Trim(s) == TrimEnd(TrimStart(s))

\* the texts handleSendMessage is called with
Texts == { <<>>, <<" ", " ">>, <<" ", "H", "i">>, <<"H", "i">> }

\* fetch('/api/agent', {method: 'POST', ...}): the input is the string
ChatRequest == StringInput(AgentEndpoint)

\* the responses the endpoint gives the chat
ChatBodies ==
  { JsonBody(HelloData), JsonBody(BadAgentData), JsonBody(NullData), TextBody,
    ErrorBody(BadAgentData) }

UserMessage(text) == [sender |-> "user", content |-> JStr(text)]
AgentMessage(content) == [sender |-> "agent", content |-> content]

\* new Error('Failed to get response'), and what response.json() and the
\* extraction throw
FailedToGetResponse ==
  [isError |-> TRUE, message |-> JStr(<<"Failed to get response">>), origin |-> "chat"]
BodySyntaxError ==
  [isError |-> TRUE, message |-> JStr(<<"Unexpected token">>), origin |-> "json"]
ContentTypeError ==
  [isError |-> TRUE, message |-> JStr(<<"Cannot read properties of null">>),
   origin |-> "chat"]

\* a catch block that shows the message of what it caught
catchContent_ShowsError(error) == error.message

\* the content of the message the catch block appends
catchContent(error) == Apology

\* the end of a call that leaves loading as it is
appendAgentMessage_KeepsLoading(content) ==
  /\ messages' = Append(messages, AgentMessage(content))
  /\ loading' = loading
  /\ turns' = [turns EXCEPT ![Len(turns)].pc = "done"]

\* setMessages(prev => [...prev, message]) of the try or the catch block,
\* then the finally block
appendAgentMessage(content) ==
  /\ messages' = Append(messages, AgentMessage(content))
  /\ loading' = FALSE
  /\ turns' = [turns EXCEPT ![Len(turns)].pc = "done"]

InitChat == Init /\ hasWindow

\* handleSendMessage(text) up to its first await; the input, the send button
\* and the Enter key are disabled while loading, and the suggested questions
\* are shown only while there are no messages
handleSendMessage(text) ==
  /\ hasWindow
  /\ ~loading
  /\ IF Len(Trim(text)) = 0
       THEN /\ lastSend' = "blank"
            /\ UNCHANGED <<interceptorVars, functionVars, messages, loading, turns>>
     ELSE /\ Len(calls) < MaxCalls
          /\ LET call == Dispatch(ChatRequest) IN
               /\ calls' = Append(calls, call)
               /\ log' = IF call.pc = "done"
                           THEN Append(log, Settled(Len(calls) + 1))
                         ELSE log
          /\ messages' = Append(messages, UserMessage(text))
          /\ loading' = TRUE
          /\ turns' = Append(turns, [text |-> text, c |-> Len(calls) + 1,
                                     at |-> Len(messages), pc |-> "fetch"])
          /\ lastSend' = "sent"
          /\ UNCHANGED <<hasWindow, embedded, originalFetch, winFetch,
                         interceptorInstalled, last, functionVars>>

\* the promise fetch() gave settles: lines 58-71, and the catch and finally
\* blocks when it rejected or the response is not ok
handleSendMessage_fetched ==
  /\ turns # <<>>
  /\ LET t == turns[Len(turns)]
         out == calls[t.c].out
     IN /\ t.pc = "fetch"
        /\ out.st # "pending"
        /\ IF out.st = "rejected"
             THEN appendAgentMessage(catchContent(out.err))
           ELSE IF ~out.resp.body.ok
             THEN appendAgentMessage(catchContent(FailedToGetResponse))
           ELSE /\ turns' = [turns EXCEPT ![Len(turns)].pc = "json"]
                /\ UNCHANGED <<messages, loading>>
  /\ UNCHANGED <<interceptorVars, functionVars, lastSend>>

\* response.json() settles: lines 73-102, and the catch and finally blocks
handleSendMessage_decoded ==
  /\ turns # <<>>
  /\ LET t == turns[Len(turns)]
         body == calls[t.c].out.resp.body
         r == messageContent(body.data)
     IN /\ t.pc = "json"
        /\ IF ~body.json
             THEN appendAgentMessage(catchContent(BodySyntaxError))
           ELSE IF r.threw
             THEN appendAgentMessage(catchContent(ContentTypeError))
           ELSE appendAgentMessage(r.content)
  /\ UNCHANGED <<interceptorVars, functionVars, lastSend>>

\* the native primitive settles a pending call
PrimitiveSettles ==
  /\ \E c \in DOMAIN calls :
       \/ \E body \in ChatBodies : PrimitiveResolves(c, body)
       \/ \E err \in Rejections, postThrows \in BOOLEAN :
            PrimitiveRejects(c, err, postThrows)
  /\ UNCHANGED <<functionVars, chatVars>>

\* clonedResponse.json() of a call settles
InterceptorDecodes ==
  /\ \E c \in DOMAIN calls, postThrows \in BOOLEAN : BodyDecoded(c, postThrows)
  /\ UNCHANGED <<functionVars, chatVars>>

NextChat ==
  \/ installAgentInterceptor /\ UNCHANGED <<functionVars, chatVars>>
  \/ uninstallAgentInterceptor /\ UNCHANGED <<functionVars, chatVars>>
  \/ \E text \in Texts : handleSendMessage(text)
  \/ PrimitiveSettles
  \/ InterceptorDecodes
  \/ handleSendMessage_fetched
  \/ handleSendMessage_decoded

SpecChat == InitChat /\ [][NextChat]_vars

\* every pending fetch and every pending json() settles, and a settled
\* promise runs its continuation
SpecChatLive ==
  /\ InitChat /\ [][NextChat]_vars
  /\ WF_vars(PrimitiveSettles)
  /\ WF_vars(InterceptorDecodes)
  /\ WF_vars(handleSendMessage_fetched)
  /\ WF_vars(handleSendMessage_decoded)

\* the call of turn t failed end-to-end: the fetch rejected, the response is
\* not ok, or its body is not JSON
Failed(t) ==
  LET out == calls[t.c].out IN
  \/ out.st = "rejected"
  \/ out.st = "resolved" /\ (~out.resp.body.ok \/ ~out.resp.body.json)

\* C17: when the endpoint call of a turn failed end-to-end, the agent
\* message appended for it is the fixed apology, whatever the error and
\* whatever the interceptor classified
C17_FailureShowsApology ==
  \A k \in DOMAIN turns :
    (turns[k].pc = "done" /\ Failed(turns[k]))
    => /\ Len(messages) >= turns[k].at + 2
       /\ messages[turns[k].at + 2] = AgentMessage(Apology)

\* a turn ended on a response that is not ok, for which the interceptor
\* had sent a FIX_ERROR_REQUEST to the parent
C17_Witness ==
  \E k \in DOMAIN turns :
    /\ turns[k].pc = "done"
    /\ calls[turns[k].c].out.st = "resolved"
    /\ ~calls[turns[k].c].out.resp.body.ok
    /\ Positions(turns[k].c, "post") # {}
    /\ messages[turns[k].at + 2] = AgentMessage(Apology)

\* what a turn has put into messages: its user message with the text as
\* given, and, once done, one agent message right after it
TurnShape(k) ==
  LET t == turns[k] IN
  /\ t.at = 2 * (k - 1)
  /\ Len(Trim(t.text)) > 0
  /\ Len(messages) >= t.at + 1
  /\ messages[t.at + 1] = UserMessage(t.text)
  /\ IF t.pc = "done"
       THEN /\ Len(messages) >= t.at + 2
            /\ messages[t.at + 2].sender = "agent"
            /\ k = Len(turns) => (Len(messages) = t.at + 2 /\ ~loading)
     ELSE /\ k = Len(turns)
          /\ Len(messages) = t.at + 1
          /\ loading

\* C20: a call with non-blank text appends exactly one user message and sets
\* loading; once the fetch and the decoding settle it appends exactly one
\* agent message after it and resets loading, on every path; a call with
\* blank text changes nothing
C20_ChatTurnCompletes ==
  /\ [](/\ \A k \in DOMAIN turns : TurnShape(k)
        /\ Len(messages) <= 2 * Len(turns)
        /\ turns = <<>> => (messages = <<>> /\ ~loading))
  /\ [][(lastSend' = "blank" /\ lastSend # "blank")
          => UNCHANGED <<messages, loading, turns, calls, log>>]_vars
  /\ \A k \in 1..MaxCalls :
       (Len(turns) >= k)
         ~> (/\ Len(turns) >= k
             /\ turns[k].pc = "done"
             /\ messages[turns[k].at + 2].sender = "agent"
             /\ k = Len(turns) => ~loading)

\* a call with non-blank text went through the installed interceptor and
\* ended: its user message and one agent message are in place and loading
\* is reset
C20_Witness ==
  /\ turns # <<>>
  /\ turns[1].pc = "done"
  /\ calls[turns[1].c].via = "intercepted"
  /\ messages[1] = UserMessage(turns[1].text)
  /\ messages[2].sender = "agent"
  /\ Len(messages) = 2
  /\ ~loading

====
